---- MODULE Spec2Model ----
(***************************************************************************)
(* A model of the narwhals series adapters: PolarsSeries                   *)
(* (src/narwhals/_polars/series.py) and PandasSeries                       *)
(* (src/narwhals/_pandas_like/series.py).                                  *)
(*                                                                         *)
(* The state is a heap of native engine objects (natives), a heap of       *)
(* adapter instances wrapping them (adapters), the adapter the latest call *)
(* returned (latest), the forwarding closure handed out by the last        *)
(* attribute lookup (pending), the installed pandas version (pdVersion)    *)
(* and a record of the last adapter call (last): its arguments, the native *)
(* calls it made, what the native engine returned and what the adapter     *)
(* returned or raised.                                                     *)
(* A native object that no adapter references (an intermediate result) is  *)
(* not kept on the heap.                                                   *)
(***************************************************************************)
EXTENDS Integers, Sequences, FiniteSets, TLC

VARIABLES natives, adapters, latest, pending, last, pdVersion

vars == <<natives, adapters, latest, pending, last, pdVersion>>

(***************************************************************************)
(* Bounds of the model.                                                    *)
(***************************************************************************)
\* Longest series drawn as input of the sort specification.
MaxSortLen == 3
\* Largest value of an element drawn as input of the sort specification.
MaxSortVal == 2
\* The longest series a native method that grows a series in place is let
\* make.
MaxLen == 4

(***************************************************************************)
(* Python values.                                                          *)
(***************************************************************************)
\* An element of a series: a null, or an integer (booleans are 0 and 1).
NullE == [null |-> TRUE, v |-> 0]
V(n) == [null |-> FALSE, v |-> n]

\* A native series name as Python sees it: None, a str, or another object
\* (an int) of which text is the str() form.
NoneName == [tag |-> "none", text |-> ""]
StrName(s) == [tag |-> "str", text |-> s]
IntName(s) == [tag |-> "int", text |-> s]

\* An argument or return value: a scalar, an adapter instance, a native
\* object, a dtype or another named object (text its name), a forwarding
\* function (of adapter id, text the attribute), or nothing (None).
Scalar(e) == [kind |-> "scalar", id |-> 0, val |-> e, text |-> ""]
Wrapped(a) == [kind |-> "adapter", id |-> a, val |-> NullE, text |-> ""]
NativeRef(n) == [kind |-> "native", id |-> n, val |-> NullE, text |-> ""]
Named(kind, text) == [kind |-> kind, id |-> 0, val |-> NullE, text |-> text]
Func(a, attr) == [kind |-> "func", id |-> a, val |-> NullE, text |-> attr]
Nothing == [kind |-> "none", id |-> 0, val |-> NullE, text |-> ""]

\* Python's < on tuples of ints: lexicographic, a proper prefix is smaller.
RECURSIVE TupleLess(_, _)
TupleLess(a, b) ==
    IF b = <<>> THEN FALSE
    ELSE IF a = <<>> THEN TRUE
    ELSE IF Head(a) # Head(b) THEN Head(a) < Head(b)
    ELSE TupleLess(Tail(a), Tail(b))

RECURSIVE Pow(_, _)
Pow(b, e) == IF e <= 0 THEN 1 ELSE b * Pow(b, e - 1)

\* Python's // and % on ints, y not zero: the quotient is rounded down and
\* the remainder has the sign of the divisor.
PyFloorDiv(x, y) == IF y > 0 THEN x \div y ELSE (0 - x) \div (0 - y)
PyMod(x, y) == x - y * PyFloorDiv(x, y)

Range(s) == {s[i] : i \in DOMAIN s}

RECURSIVE SelectIdx(_, _)
\* The elements of s at the positions where keep holds, in order.
SelectIdx(s, keep) ==
    IF s = <<>> THEN <<>>
    ELSE (IF Head(keep) THEN <<Head(s)>> ELSE <<>>) \o SelectIdx(Tail(s), Tail(keep))

HasNulls(vals) == \E i \in DOMAIN vals : vals[i].null

(***************************************************************************)
(* The operator surface.                                                   *)
(***************************************************************************)
PolarsBinOps ==
    {"__eq__", "__ne__", "__ge__", "__gt__", "__le__", "__lt__", "__and__",
     "__or__", "__add__", "__radd__", "__sub__", "__rsub__", "__mul__",
     "__rmul__", "__pow__", "__rpow__"}

PandasBinOps ==
    {"__eq__", "__ne__", "__ge__", "__gt__", "__le__", "__lt__", "__and__",
     "__rand__", "__or__", "__ror__", "__add__", "__radd__", "__sub__",
     "__rsub__", "__mul__", "__rmul__", "__truediv__", "__rtruediv__",
     "__floordiv__", "__rfloordiv__", "__pow__", "__rpow__", "__mod__",
     "__rmod__"}

ReflectedOps ==
    {"__rand__", "__ror__", "__radd__", "__rsub__", "__rmul__", "__rtruediv__",
     "__rfloordiv__", "__rpow__", "__rmod__"}

ComparisonOps == {"__eq__", "__ne__", "__ge__", "__gt__", "__le__", "__lt__"}

BooleanOps == {"__and__", "__rand__", "__or__", "__ror__"}

PolarsClasses == {"PolarsSeries", "PolarsDataFrame"}

(***************************************************************************)
(* The native engines, as far as the adapters call them.  The adapters do  *)
(* no computation of their own; the values below are the engines'.         *)
(***************************************************************************)
Bool(b) == V(IF b THEN 1 ELSE 0)

\* The float that is not a number, a value of its own and no null.
NaN == [null |-> FALSE, v |-> 0, nan |-> TRUE]
IsNaN(e) == "nan" \in DOMAIN e

\* pandas.api.types.is_extension_array_dtype(dtype): the nullable dtypes of
\* pandas, which keep a mask of the missing values, are extension dtypes;
\* float64, int64, bool and object are dtypes of numpy.
is_extension_array_dtype(dtype) ==
    dtype \in {"Int64", "Float64", "Boolean", "String", "Categorical"}

\* The rule by which a native operator treats the missing values of a
\* series of dtype: a pandas series of an extension dtype propagates them as
\* polars does ("masked"), one of a numpy dtype compares them as NaN.
ElemEngine(engine, dtype) ==
    IF engine = "pandas" /\ is_extension_array_dtype(dtype) THEN "masked" ELSE engine

\* One element of a native binary operator, x the left and y the right
\* operand, engine the rule for missing values.  NaN is unequal to
\* everything and makes every arithmetic result NaN.  A division by zero and a negative power are given as a missing
\* value, and a true division as the integer quotient (the model holds no
\* floats).
ElemOp(engine, op, x, y) ==
    IF x.null \/ y.null
    THEN IF engine = "pandas" /\ op \in ComparisonOps
         THEN Bool(op = "__ne__")
         ELSE NullE
    ELSE IF IsNaN(x) \/ IsNaN(y)
    THEN IF op \in ComparisonOps THEN Bool(op = "__ne__") ELSE NaN
    ELSE CASE op = "__eq__" -> Bool(x.v = y.v)
           [] op = "__ne__" -> Bool(x.v # y.v)
           [] op = "__ge__" -> Bool(x.v >= y.v)
           [] op = "__gt__" -> Bool(x.v > y.v)
           [] op = "__le__" -> Bool(x.v <= y.v)
           [] op = "__lt__" -> Bool(x.v < y.v)
           [] op \in {"__and__", "__rand__"} -> Bool(x.v # 0 /\ y.v # 0)
           [] op \in {"__or__", "__ror__"} -> Bool(x.v # 0 \/ y.v # 0)
           [] op \in {"__add__", "__radd__"} -> V(x.v + y.v)
           [] op \in {"__sub__", "__rsub__"} -> V(x.v - y.v)
           [] op \in {"__mul__", "__rmul__"} -> V(x.v * y.v)
           [] op \in {"__pow__", "__rpow__"} ->
                IF y.v < 0 THEN NullE ELSE V(Pow(x.v, y.v))
           [] op \in {"__truediv__", "__rtruediv__", "__floordiv__", "__rfloordiv__"} ->
                IF y.v = 0 THEN NullE ELSE V(PyFloorDiv(x.v, y.v))
           [] op \in {"__mod__", "__rmod__"} ->
                IF y.v = 0 THEN NullE ELSE V(PyMod(x.v, y.v))

\* The dtype of a native binary operator's result.
BinDtype(op, dtype) ==
    IF op \in ComparisonOps \cup BooleanOps THEN "Boolean"
    ELSE IF op \in {"__truediv__", "__rtruediv__"} THEN "Float64"
    ELSE dtype


\* A native series object.  index holds the row labels of a pandas series
\* and is empty for polars, which has no index.
NativeSeries(engine, vals, name, dtype, index) ==
    [kind |-> "series", engine |-> engine, vals |-> vals, name |-> name,
     dtype |-> dtype, index |-> index]

RangeIndex(n) == [i \in 1..n |-> i - 1]

\* The value a pandas series holds at row label l, missing when it has none.
ValAt(n, l) ==
    IF \E i \in DOMAIN n.index : n.index[i] = l
    THEN n.vals[CHOOSE i \in DOMAIN n.index : n.index[i] = l]
    ELSE NullE

RECURSIVE SortedSeq(_)
\* The integers of a finite set in ascending order.
SortedSeq(S) ==
    IF S = {} THEN <<>>
    ELSE LET m == CHOOSE x \in S : \A y \in S : x <= y
         IN <<m>> \o SortedSeq(S \ {m})

\* The operands of one element in the order the operator takes them: a
\* reflected operator has the series on the right.
ElemOf(engine, op, mine, theirs) ==
    IF op \in ReflectedOps THEN ElemOp(engine, op, theirs, mine)
    ELSE ElemOp(engine, op, mine, theirs)

\* polars before 1.16.1 names the result of __rpow__ after the literal
\* (pola-rs/polars#20071), every other result after the left operand.
NativeBinName(engine, op, bv, name) ==
    IF engine = "polars" /\ op = "__rpow__" /\ TupleLess(bv, <<1, 16, 1>>)
    THEN StrName("literal") ELSE name

\* The native binary operator op of series n on operand x: a scalar, a native
\* series, or an object the engine does not know (an adapter instance).
\* polars broadcasts a series of length 1 and refuses other unequal lengths;
\* pandas aligns the two series on their row labels.
NativeBinary(engine, op, n, x, bv) ==
    LET nm == NativeBinName(engine, op, bv, n.name)
        dt == BinDtype(op, n.dtype)
    IN CASE engine = "polars" /\ n.dtype \in {"Datetime", "Categorical"}
              /\ op \notin ComparisonOps ->
              [err |-> "polars.InvalidOperationError", obj |-> n]
         [] x.kind = "native" /\ natives[x.id].kind # "series" ->
              [err |-> "TypeError", obj |-> n]
         [] x.kind = "scalar" ->
              [err |-> "",
               obj |-> NativeSeries(engine,
                          [i \in DOMAIN n.vals |-> ElemOf(ElemEngine(engine, n.dtype), op, n.vals[i], x.val)],
                          nm, dt, n.index)]
         [] x.kind = "native" /\ engine = "polars" ->
              LET o == natives[x.id]
              IN IF Len(o.vals) = Len(n.vals)
                 THEN [err |-> "",
                       obj |-> NativeSeries(engine,
                                  [i \in DOMAIN n.vals |-> ElemOf(ElemEngine(engine, n.dtype), op, n.vals[i], o.vals[i])],
                                  nm, dt, n.index)]
                 ELSE IF Len(o.vals) = 1
                 THEN [err |-> "",
                       obj |-> NativeSeries(engine,
                                  [i \in DOMAIN n.vals |-> ElemOf(ElemEngine(engine, n.dtype), op, n.vals[i], o.vals[1])],
                                  nm, dt, n.index)]
                 ELSE IF Len(n.vals) = 1
                 THEN [err |-> "",
                       obj |-> NativeSeries(engine,
                                  [i \in DOMAIN o.vals |-> ElemOf(ElemEngine(engine, n.dtype), op, n.vals[1], o.vals[i])],
                                  nm, dt, n.index)]
                 ELSE [err |-> "polars.ShapeError", obj |-> n]
         [] x.kind = "native" /\ engine = "pandas" ->
              LET o == natives[x.id]
                  labels == SortedSeq(Range(n.index) \cup Range(o.index))
                  idx == IF o.index = n.index THEN n.index ELSE labels
              IN [err |-> "",
                  obj |-> NativeSeries(engine,
                             [i \in DOMAIN idx |->
                                 ElemOf(ElemEngine(engine, n.dtype), op, ValAt(n, idx[i]), ValAt(o, idx[i]))],
                             IF o.name = n.name THEN n.name ELSE NoneName, dt, idx)]
         [] OTHER -> [err |-> "TypeError", obj |-> n]

\* A native table object of one column.
NativeFrame(engine, vals, name, dtype) ==
    [kind |-> "frame", engine |-> engine, vals |-> vals, name |-> name,
     dtype |-> dtype, index |-> <<>>]

\* A Python object that is neither a series nor a table, as a heap object.
NativeScalar(e) ==
    [kind |-> "scalar", engine |-> "", vals |-> <<e>>, name |-> NoneName,
     dtype |-> "", index |-> <<>>]

IsNull(vals) == [i \in DOMAIN vals |-> vals[i].null]
NotNull(vals) == [i \in DOMAIN vals |-> ~vals[i].null]

RECURSIVE Insert(_, _, _)
\* e put into the sorted sequence s, before the first element it does not
\* follow.
Insert(e, s, descending) ==
    IF s = <<>> THEN <<e>>
    ELSE IF (IF descending THEN e.v >= Head(s).v ELSE e.v <= Head(s).v)
    THEN <<e>> \o s
    ELSE <<Head(s)>> \o Insert(e, Tail(s), descending)

RECURSIVE SortVals(_, _)
SortVals(s, descending) ==
    IF s = <<>> THEN <<>>
    ELSE Insert(Head(s), SortVals(Tail(s), descending), descending)

\* pl.Series.sort(descending=, nulls_last=) from 0.20.6 on.
NativeSort(vals, descending, nulls_last) ==
    LET sorted == SortVals(SelectIdx(vals, NotNull(vals)), descending)
        nulls == SelectIdx(vals, IsNull(vals))
    IN IF nulls_last THEN sorted \o nulls ELSE nulls \o sorted

\* pl.Series.sort(descending=) before 0.20.6, which takes no nulls_last: the
\* nulls go where that release of the engine puts them (nulls_at_end).
NativeSortLegacy(vals, descending, nulls_at_end) ==
    NativeSort(vals, descending, nulls_at_end)

\* pl.Series.cast / pandas astype: the values in the native dtype.
CastVals(vals, dtype) ==
    IF dtype \in {"Boolean", "bool"}
    THEN [i \in DOMAIN vals |-> IF vals[i].null THEN NullE ELSE Bool(vals[i].v # 0)]
    ELSE vals

\* pl.Series.replace_strict(old, new): every value that is not null must be
\* in old and becomes the value of new at that place.
NativeReplaceStrict(vals, old, new) ==
    IF \E i \in DOMAIN vals : ~vals[i].null /\ vals[i] \notin Range(old)
    THEN [err |-> "polars.InvalidOperationError", vals |-> vals]
    ELSE [err |-> "",
          vals |-> [i \in DOMAIN vals |->
                       IF vals[i].null THEN NullE
                       ELSE new[CHOOSE j \in DOMAIN old : old[j] = vals[i]]]]

\* pl.Series.ewm_mean with a decay of alpha = 1 (com = 0, span = 1 or
\* alpha = 1), where the mean is the latest value: given is the set of decay
\* parameters passed, of which the engine wants exactly one; a place with
\* fewer than min_periods values before it (itself included) is null.
NativeEwmMean(vals, dtype, given, min_periods) ==
    IF Cardinality(given) # 1
    THEN [err |-> "ValueError", vals |-> vals]
    ELSE IF dtype \notin {"Int64", "Float64"}
    THEN [err |-> "polars.InvalidOperationError", vals |-> vals]
    ELSE [err |-> "",
          vals |-> [i \in DOMAIN vals |->
                       IF vals[i].null
                          \/ Cardinality({j \in 1..i : ~vals[j].null}) < min_periods
                       THEN NullE ELSE vals[i]]]

\* pl.Series.scatter(indices, values), which writes in place: x is a scalar
\* or a native series with one value per index.
NativeScatter(vals, indices, x) ==
    IF \E k \in DOMAIN indices : indices[k] >= Len(vals)
    THEN [err |-> "polars.OutOfBoundsError", vals |-> vals]
    ELSE IF x.kind = "scalar"
    THEN [err |-> "",
          vals |-> [i \in DOMAIN vals |->
                       IF \E k \in DOMAIN indices : indices[k] = i - 1
                       THEN x.val ELSE vals[i]]]
    ELSE IF x.kind = "native" /\ natives[x.id].kind = "series"
            /\ Len(natives[x.id].vals) = Len(indices)
    THEN [err |-> "",
          vals |-> [i \in DOMAIN vals |->
                       IF \E k \in DOMAIN indices : indices[k] = i - 1
                       THEN natives[x.id].vals[CHOOSE k \in DOMAIN indices :
                                                  indices[k] = i - 1]
                       ELSE vals[i]]]
    ELSE [err |-> "polars.ComputeError", vals |-> vals]

Sum(vals) ==
    LET RECURSIVE Add(_)
        Add(q) == IF q = <<>> THEN 0
                  ELSE (IF Head(q).null THEN 0 ELSE Head(q).v) + Add(Tail(q))
    IN Add(vals)

Max(S) == CHOOSE x \in S : \A y \in S : y <= x

\* What a native method returns: kind is "new" (a fresh object obj), "same"
\* (the object id it was called on, written in place as mut says) or
\* "scalar" (val).
NativeNew(obj) ==
    [err |-> "", kind |-> "new", obj |-> obj, id |-> 0, val |-> NullE,
     mut |-> [id |-> 0, vals |-> <<>>]]
NativeSame(nid, vals) ==
    [err |-> "", kind |-> "same", obj |-> natives[nid], id |-> nid, val |-> NullE,
     mut |-> [id |-> nid, vals |-> vals]]
NativeValue(e) ==
    [err |-> "", kind |-> "scalar", obj |-> NativeScalar(e), id |-> 0, val |-> e,
     mut |-> [id |-> 0, vals |-> <<>>]]
NativeError(err) ==
    [err |-> err, kind |-> "", obj |-> NativeScalar(NullE), id |-> 0, val |-> NullE,
     mut |-> [id |-> 0, vals |-> <<>>]]

\* The methods of pl.Series that PolarsSeries does not define itself, as far
\* as the model calls them.
NativeAttrs == {"sum", "to_frame", "filter", "extend"}

\* getattr(series, attr)(*args) on the native polars series at nid.
\*   sum()          the sum of the values, a number
\*   to_frame()     a table of the one column
\*   filter(mask)   the rows where the boolean series mask is true
\*   extend(other)  appends other's values in place and returns the series
NativeMethod(attr, nid, args) ==
    LET n == natives[nid]
        one == Len(args) = 1 /\ args[1].kind = "native"
                /\ natives[args[1].id].kind = "series"
                /\ natives[args[1].id].engine = "polars"
        o == natives[args[1].id]
    IN CASE attr \notin NativeAttrs -> NativeError("AttributeError")
         [] attr = "sum" ->
              IF args = <<>> THEN NativeValue(V(Sum(n.vals))) ELSE NativeError("TypeError")
         [] attr = "to_frame" ->
              IF args = <<>> THEN NativeNew(NativeFrame("polars", n.vals, n.name, n.dtype))
              ELSE NativeError("TypeError")
         [] attr = "filter" ->
              IF ~one THEN NativeError("TypeError")
              ELSE IF o.dtype # "Boolean" THEN NativeError("polars.SchemaError")
              ELSE IF Len(o.vals) # Len(n.vals) THEN NativeError("polars.ShapeError")
              ELSE NativeNew([n EXCEPT !.vals =
                        SelectIdx(n.vals, [i \in DOMAIN o.vals |->
                                              ~o.vals[i].null /\ o.vals[i].v # 0])])
         [] attr = "extend" ->
              IF ~one THEN NativeError("TypeError")
              ELSE NativeSame(nid, n.vals \o o.vals)

\* The methods the model calls on the native namespaces of a polars series:
\* <<namespace, method>>.
NamespaceAttrs ==
    {<<"dt", "year">>, <<"dt", "max">>, <<"cat", "get_categories">>,
     <<"cat", "uses_lexical_ordering">>, <<"str", "to_uppercase">>}

\* getattr(series.<ns>, attr)() on the native polars series at nid.
\*   dt.year()                   the year of each datetime, a series
\*   dt.max()                    the latest datetime, a scalar
\*   cat.get_categories()        the categories, a series
\*   cat.uses_lexical_ordering() a bool
\*   str.to_uppercase()          a series; the model holds no string series
\* A namespace of another dtype refuses the call.
NativeNamespace(ns, attr, nid) ==
    LET n == natives[nid]
        present == {n.vals[i].v : i \in {j \in DOMAIN n.vals : ~n.vals[j].null}}
    IN CASE <<ns, attr>> \notin NamespaceAttrs -> NativeError("AttributeError")
         [] ns = "dt" /\ n.dtype = "Datetime" /\ attr = "year" ->
              NativeNew([n EXCEPT !.dtype = "Int32",
                                  !.vals = [i \in DOMAIN n.vals |->
                                               IF n.vals[i].null THEN NullE ELSE V(1970)]])
         [] ns = "dt" /\ n.dtype = "Datetime" /\ attr = "max" ->
              NativeValue(IF present = {} THEN NullE ELSE V(Max(present)))
         [] ns = "cat" /\ n.dtype = "Categorical" /\ attr = "get_categories" ->
              NativeNew([n EXCEPT !.dtype = "String",
                                  !.vals = [i \in DOMAIN SortedSeq(present) |->
                                               V(SortedSeq(present)[i])]])
         [] ns = "cat" /\ n.dtype = "Categorical" /\ attr = "uses_lexical_ordering" ->
              NativeValue(Bool(FALSE))
         [] OTHER -> NativeError("polars.InvalidOperationError")

\* pandas Series.astype(dtype): a missing value has no int64 or bool form.
NativeAstype(vals, dtype) ==
    IF dtype \in {"int64", "bool"} /\ HasNulls(vals)
    THEN [err |-> "ValueError", vals |-> vals]
    ELSE [err |-> "", vals |-> CastVals(vals, dtype)]

Truth(e) == ~e.null /\ e.v # 0

\* pandas ser.loc[x]: x a boolean series on the same index selects the rows
\* where it is true; a series of another dtype is a list of row labels, each
\* of which must exist; a scalar is one row label, whose value (no series) is
\* the result.
NativeLoc(n, x) ==
    IF x.kind = "scalar"
    THEN IF ~x.val.null /\ x.val.v \in Range(n.index)
         THEN NativeValue(ValAt(n, x.val.v))
         ELSE NativeError("KeyError")
    ELSE IF x.kind # "native" THEN NativeError("TypeError")
    ELSE LET m == natives[x.id]
         IN IF m.dtype = "Boolean"
            THEN IF m.index # n.index THEN NativeError("pandas.IndexingError")
                 ELSE NativeNew([n EXCEPT
                         !.vals = SelectIdx(n.vals, [i \in DOMAIN m.vals |-> Truth(m.vals[i])]),
                         !.index = SelectIdx(n.index, [i \in DOMAIN m.vals |-> Truth(m.vals[i])])])
            ELSE IF \E i \in DOMAIN m.vals : m.vals[i].null \/ m.vals[i].v \notin Range(n.index)
            THEN NativeError("KeyError")
            ELSE NativeNew([n EXCEPT
                    !.vals = [i \in DOMAIN m.vals |-> ValAt(n, m.vals[i].v)],
                    !.index = [i \in DOMAIN m.vals |-> m.vals[i].v]])

\* pandas ser.where(cond, other): the value of ser where the boolean series
\* cond is true, that of other (a scalar or a series) elsewhere.
NativeWhere(n, cond, other) ==
    IF cond.kind # "native" \/ other.kind \notin {"native", "scalar"}
    THEN NativeError("ValueError")
    ELSE LET m == natives[cond.id]
         IN IF m.dtype # "Boolean" THEN NativeError("ValueError")
            ELSE NativeNew([n EXCEPT !.vals =
                    [i \in DOMAIN n.vals |->
                        IF Truth(ValAt(m, n.index[i])) THEN n.vals[i]
                        ELSE IF other.kind = "scalar" THEN other.val
                        ELSE ValAt(natives[other.id], n.index[i])]])

\* pandas ser.sort_values(ascending=): the rows in the order of their values,
\* the missing values last.
NativeSortValues(n, ascending) ==
    LET rows == [i \in DOMAIN n.vals |->
                    [null |-> n.vals[i].null, v |-> n.vals[i].v, label |-> n.index[i]]]
        sorted == SortVals(SelectIdx(rows, NotNull(n.vals)), ~ascending)
                     \o SelectIdx(rows, IsNull(n.vals))
    IN [n EXCEPT !.vals = [i \in DOMAIN sorted |->
                              [null |-> sorted[i].null, v |-> sorted[i].v]],
                 !.index = [i \in DOMAIN sorted |-> sorted[i].label]]

\* pandas ser.isin(values).convert_dtypes(), values a list of ints.
NativeIsIn(n, values) ==
    [n EXCEPT !.dtype = "Boolean",
              !.vals = [i \in DOMAIN n.vals |->
                           Bool(~n.vals[i].null /\ n.vals[i].v \in values)]]

(***************************************************************************)
(* Outcomes of an adapter call.  err is the exception raised ("" when the  *)
(* call returns), calls the native attribute reads and calls made, in      *)
(* order, nret what the last native call returned, new the native object   *)
(* the result wraps when it is a fresh one, adapter the adapter instance   *)
(* returned, ret the value returned when it is no adapter, and mut a write *)
(* the native engine made in place (to native object mut.id).              *)
(*                                                                         *)
(* The caller keeps the adapters it constructed, which come first on the   *)
(* heap, and calls their methods with scalars and with each other; the     *)
(* adapter the latest call returned (latest, 0 when it returned none) is   *)
(* released as the next call returns.                                      *)
(***************************************************************************)
NoMut == [id |-> 0, vals |-> <<>>]

NativeCall(method, recv, args) == [method |-> method, recv |-> recv, args |-> args]

Raised(err, calls) ==
    [err |-> err, calls |-> calls, nret |-> Nothing, new |-> <<>>,
     adapter |-> <<>>, ret |-> Nothing, mut |-> NoMut]

\* The adapters the caller constructed.
NumConstructed == IF latest = 0 THEN Len(adapters) ELSE Len(adapters) - 1

\* The id a native object allocated by the current call gets, and the id of
\* the adapter instance it returns.
NewId == NumConstructed + 1

\* A call returning a new adapter instance around a fresh native object.
ReturnedNew(calls, obj, adapter) ==
    [err |-> "", calls |-> calls, nret |-> NativeRef(NewId), new |-> <<obj>>,
     adapter |-> <<adapter>>, ret |-> Nothing, mut |-> NoMut]

\* A call returning a new adapter instance around a native object that is
\* already on the heap.
ReturnedSame(calls, nid, adapter) ==
    [err |-> "", calls |-> calls, nret |-> NativeRef(nid), new |-> <<>>,
     adapter |-> <<adapter>>, ret |-> Nothing, mut |-> NoMut]

\* A call returning a value that is no adapter.
ReturnedValue(calls, nret, ret) ==
    [err |-> "", calls |-> calls, nret |-> nret, new |-> <<>>,
     adapter |-> <<>>, ret |-> ret, mut |-> NoMut]

NoFlags == [descending |-> FALSE, nulls_last |-> FALSE]

NoAdapter ==
    [cls |-> "", native |-> 0, backend_version |-> <<>>, implementation |-> "",
     version |-> "", name |-> NoneName, use_copy_false |-> FALSE]

\* An argument as the call record keeps it: with the class and the length it
\* had when the call was made.
Describe(x) ==
    [kind |-> x.kind, id |-> x.id, val |-> x.val, text |-> x.text,
     cls |-> IF x.kind = "adapter" THEN adapters[x.id].cls ELSE "",
     len |-> IF x.kind = "adapter" THEN Len(natives[adapters[x.id].native].vals) ELSE 0]

\* The step of a call with outcome o: the heap after it and its record.  The
\* result of the call before is released.
Commit(opname, s, args, flags, o, pend) ==
    LET written == IF o.mut.id # 0
                   THEN [natives EXCEPT ![o.mut.id].vals = o.mut.vals]
                   ELSE natives
        k == NumConstructed
    IN /\ natives' = SubSeq(written, 1, k) \o o.new
       /\ adapters' = SubSeq(adapters, 1, k) \o o.adapter
       /\ latest' = IF o.adapter # <<>> THEN k + 1 ELSE 0
       /\ pending' = pend
       /\ last' = [op |-> opname, self |-> s,
                   recv |-> adapters[s],
                   before |-> natives[adapters[s].native].vals,
                   args |-> [i \in DOMAIN args |-> Describe(args[i])],
                   flags |-> flags, err |-> o.err, calls |-> o.calls,
                   nret |-> o.nret,
                   ret |-> IF o.adapter # <<>> THEN Wrapped(k + 1) ELSE o.ret]
       /\ UNCHANGED pdVersion

(***************************************************************************)
(* Helpers of the repository that the adapters import.                     *)
(***************************************************************************)
\* narwhals._polars.utils.extract_native: the native counterpart of a polars
\* adapter; a series of another engine is refused; anything else is passed
\* through.  It is given the operand alone, so it compares no shapes.
extract_native(obj) ==
    IF obj.kind # "adapter" THEN [err |-> "", operand |-> obj]
    ELSE IF adapters[obj.id].cls \in PolarsClasses
    THEN [err |-> "", operand |-> NativeRef(adapters[obj.id].native)]
    ELSE [err |-> "CrossEngineOperand", operand |-> obj]

\* narwhals._polars.utils.extract_args_kwargs: every argument that is an
\* adapter-wrapped object is replaced by its native counterpart.
extract_args_kwargs(args) ==
    [i \in DOMAIN args |->
        IF args[i].kind = "adapter" THEN NativeRef(adapters[args[i].id].native)
        ELSE args[i]]

\* The abstract dtypes a caller asks for; the last has no native form.
AbstractDtypes == {"nw.Int64", "nw.Float64", "nw.Boolean", "nw.Int128"}

\* narwhals._polars.utils.narwhals_to_native_dtype(dtype, version): the
\* polars dtype of an abstract dtype, UnsupportedDtype when it has none.
narwhals_to_native_dtype(dtype, version) ==
    CASE dtype = "nw.Int64" -> [err |-> "", dtype |-> "Int64"]
      [] dtype = "nw.Float64" -> [err |-> "", dtype |-> "Float64"]
      [] dtype = "nw.Boolean" -> [err |-> "", dtype |-> "Boolean"]
      [] OTHER -> [err |-> "UnsupportedDtype", dtype |-> ""]

\* narwhals._pandas_like.utils.reverse_translate_dtype(dtype): the pandas
\* dtype of an abstract dtype, UnsupportedDtype when it has none.
reverse_translate_dtype(dtype) ==
    CASE dtype = "nw.Int64" -> [err |-> "", dtype |-> "int64"]
      [] dtype = "nw.Float64" -> [err |-> "", dtype |-> "float64"]
      [] dtype = "nw.Boolean" -> [err |-> "", dtype |-> "bool"]
      [] OTHER -> [err |-> "UnsupportedDtype", dtype |-> ""]

\* narwhals._polars.dataframe.PolarsDataFrame(df, backend_version=, version=)
PolarsDataFrame(df, backend_version, version) ==
    [cls |-> "PolarsDataFrame", native |-> df, backend_version |-> backend_version,
     implementation |-> "polars", version |-> version, name |-> NoneName,
     use_copy_false |-> FALSE]

\* narwhals._pandas_like.utils.validate_column_comparand: the comparand
\* aligner.  A scalar passes; a pandas series with the index of the left
\* operand passes as its native object; one of length 1 is broadcast as its
\* only value; any other pandas series is a shape mismatch; a series of
\* another engine is refused.
validate_column_comparand(index, other) ==
    IF other.kind # "adapter" THEN [err |-> "", operand |-> other]
    ELSE IF adapters[other.id].cls # "PandasSeries"
    THEN [err |-> "CrossEngineOperand", operand |-> other]
    ELSE LET o == natives[adapters[other.id].native]
         IN IF o.index = index
            THEN [err |-> "", operand |-> NativeRef(adapters[other.id].native)]
            ELSE IF Len(o.vals) = 1
            THEN [err |-> "", operand |-> Scalar(o.vals[1])]
            ELSE [err |-> "ShapeMismatch", operand |-> other]

(***************************************************************************)
(* PolarsSeries.                                                           *)
(***************************************************************************)
PolarsInit(series, backend_version, version) ==
    [cls |-> "PolarsSeries", native |-> series, backend_version |-> backend_version,
     implementation |-> "polars", version |-> version, name |-> NoneName,
     use_copy_false |-> FALSE]

\* self._from_native_series(series), self an adapter record.
from_native_series(self, series) ==
    PolarsInit(series, self.backend_version, self.version)

\* PolarsSeries.name
PolarsName(a) == natives[adapters[a].native].name

\* A binary operator that hands its operand to the native operator as it is.
PolarsBinaryUnchecked(s, op, other) ==
    LET self == adapters[s]
        ser == natives[self.native]
        call == NativeCall(op, self.native, <<other>>)
        r == NativeBinary("polars", op, ser, other, self.backend_version)
    IN IF r.err # "" THEN Raised(r.err, <<call>>)
       ELSE ReturnedNew(<<call>>, r.obj, from_native_series(self, NewId))

\* PolarsSeries.__eq__ .. __rpow__: extract_native(other), then the native
\* operator, then _from_native_series; __rpow__ sets the alias before 1.16.1.
PolarsBinary(s, op, other) ==
    LET self == adapters[s]
        ser == natives[self.native]
        ex == extract_native(other)
        call == NativeCall(op, self.native, <<ex.operand>>)
        r == NativeBinary("polars", op, ser, ex.operand, self.backend_version)
        result == IF op = "__rpow__" /\ TupleLess(self.backend_version, <<1, 16, 1>>)
                  THEN [r.obj EXCEPT !.name = PolarsName(s)]
                  ELSE r.obj
    IN IF ex.err # "" THEN Raised(ex.err, <<>>)
       ELSE IF r.err # "" THEN Raised(r.err, <<call>>)
       ELSE ReturnedNew(<<call>>, result, from_native_series(self, NewId))

\* PolarsSeries._change_version(version)
PolarsChangeVersion(s, version) ==
    LET self == adapters[s]
    IN [ReturnedSame(<<>>, self.native,
                     PolarsInit(self.native, self.backend_version, version))
        EXCEPT !.nret = Nothing]

\* self._from_native_series(r), r what a native call returned, whatever its
\* shape: every result is wrapped as a series.
from_native_series_of(self, calls, r) ==
    CASE r.kind = "same" ->
           [ReturnedSame(calls, r.id, from_native_series(self, r.id)) EXCEPT !.mut = r.mut]
      [] r.kind = "scalar" ->
           [ReturnedNew(calls, r.obj, from_native_series(self, NewId))
            EXCEPT !.nret = Scalar(r.val)]
      [] OTHER -> ReturnedNew(calls, r.obj, from_native_series(self, NewId))

\* _from_native_object that wraps as the namespaces do.
from_native_object_as_series(self, calls, r) == from_native_series_of(self, calls, r)

\* PolarsSeries._from_native_object(series), series what the native call r
\* returned: a pl.Series is wrapped as a PolarsSeries, a pl.DataFrame as a
\* PolarsDataFrame, anything else is returned as it is.
from_native_object(self, calls, r) ==
    LET obj == IF r.kind = "same" THEN natives[r.id] ELSE r.obj
        id == IF r.kind = "same" THEN r.id ELSE NewId
        wrapped(adapter) ==
            IF r.kind = "same"
            THEN [ReturnedSame(calls, id, adapter) EXCEPT !.mut = r.mut]
            ELSE ReturnedNew(calls, obj, adapter)
    IN IF obj.kind = "series" THEN wrapped(from_native_series(self, id))
       ELSE IF obj.kind = "frame"
       THEN wrapped(PolarsDataFrame(id, self.backend_version, self.version))
       ELSE ReturnedValue(calls, Scalar(r.val), Scalar(r.val))

\* __getattr__ without the check of the reserved name.
PolarsGetAttrNoSentinel(s, attr) == ReturnedValue(<<>>, Nothing, Func(s, attr))

\* PolarsSeries.__getattr__(attr): the lookup of a name the class does not
\* define.
PolarsGetAttr(s, attr) ==
    IF attr = "as_py" THEN Raised("AttributeError", <<>>)
    ELSE ReturnedValue(<<>>, Nothing, Func(s, attr))

\* func(*args), func the function PolarsSeries.__getattr__(attr) returned.
PolarsForward(s, attr, args) ==
    LET self == adapters[s]
        unwrapped == extract_args_kwargs(args)
        r == NativeMethod(attr, self.native, unwrapped)
        get == NativeCall("getattr", self.native, <<Named("str", attr)>>)
        call == NativeCall(attr, self.native, unwrapped)
    IN IF attr \notin NativeAttrs THEN Raised(r.err, <<get>>)
       ELSE IF r.err # "" THEN Raised(r.err, <<get, call>>)
       ELSE from_native_object(self, <<get, call>>, r)

\* series.dt.<attr>(), series.str.<attr>(), series.cat.<attr>(): the function
\* the namespace's __getattr__ returns, called without arguments.
PolarsNamespace(s, ns, attr) ==
    LET self == adapters[s]
        r == NativeNamespace(ns, attr, self.native)
        get == NativeCall("getattr", self.native, <<Named("str", ns), Named("str", attr)>>)
        call == NativeCall(attr, self.native, <<>>)
    IN IF <<ns, attr>> \notin NamespaceAttrs THEN Raised(r.err, <<get>>)
       ELSE IF r.err # "" THEN Raised(r.err, <<get, call>>)
       ELSE from_native_series_of(self, <<get, call>>, r)

\* PolarsSeries.cast(dtype)
PolarsCast(s, dtype) ==
    LET self == adapters[s]
        ser == natives[self.native]
        dtype_pl == narwhals_to_native_dtype(dtype, self.version)
        call == NativeCall("cast", self.native, <<Named("dtype", dtype_pl.dtype)>>)
    IN IF dtype_pl.err # "" THEN Raised(dtype_pl.err, <<>>)
       ELSE ReturnedNew(<<call>>,
                        [ser EXCEPT !.vals = CastVals(ser.vals, dtype_pl.dtype),
                                    !.dtype = dtype_pl.dtype],
                        from_native_series(self, NewId))

\* PolarsSeries.replace_strict(old, new, return_dtype=), "" standing for a
\* return_dtype of None.
PolarsReplaceStrict(s, old, new, return_dtype) ==
    LET self == adapters[s]
        ser == natives[self.native]
        dtype == IF return_dtype # ""
                 THEN narwhals_to_native_dtype(return_dtype, self.version)
                 ELSE [err |-> "", dtype |-> ""]
        r == NativeReplaceStrict(ser.vals, old, new)
        call == NativeCall("replace_strict", self.native, <<Named("dtype", dtype.dtype)>>)
    IN IF dtype.err # "" THEN Raised(dtype.err, <<>>)
       ELSE IF TupleLess(self.backend_version, <<1>>)
       THEN Raised("NotImplementedError", <<>>)
       ELSE IF r.err # "" THEN Raised(r.err, <<call>>)
       ELSE ReturnedNew(<<call>>,
                        IF dtype.dtype = "" THEN [ser EXCEPT !.vals = r.vals]
                        ELSE [ser EXCEPT !.vals = CastVals(r.vals, dtype.dtype),
                                         !.dtype = dtype.dtype],
                        from_native_series(self, NewId))

\* PolarsSeries.ewm_mean(com=, span=, half_life=, alpha=, adjust=,
\* min_periods=, ignore_nulls=): given is the set of decay parameters that
\* are not None.
PolarsEwmMean(s, given, min_periods) ==
    LET self == adapters[s]
        ser == natives[self.native]
        r == NativeEwmMean(ser.vals, ser.dtype, given, min_periods)
        call == NativeCall("ewm_mean", self.native, <<>>)
    IN IF TupleLess(self.backend_version, <<1>>)
       THEN Raised("NotImplementedError", <<>>)
       ELSE IF r.err # "" THEN Raised(r.err, <<call>>)
       ELSE ReturnedNew(<<call>>, [ser EXCEPT !.vals = r.vals, !.dtype = "Float64"],
                        from_native_series(self, NewId))

\* sort whose branch for the older engine returns the native sort as it is.
PolarsSortNoConcat(s, descending, nulls_last, nulls_at_end) ==
    LET self == adapters[s]
        ser == natives[self.native]
        sort == NativeCall("sort", self.native, <<>>)
    IN IF TupleLess(self.backend_version, <<0, 20, 6>>)
       THEN ReturnedNew(<<sort>>,
                        [ser EXCEPT !.vals = NativeSortLegacy(ser.vals, descending,
                                                              nulls_at_end)],
                        from_native_series(self, NewId))
       ELSE ReturnedNew(<<sort>>,
                        [ser EXCEPT !.vals = NativeSort(ser.vals, descending, nulls_last)],
                        from_native_series(self, NewId))

\* PolarsSeries.sort(descending=, nulls_last=).  Before 0.20.6 the native
\* sort takes no nulls_last (nulls_at_end is where that engine puts the
\* nulls), and the nulls are moved to the end with filter and concat.
PolarsSort(s, descending, nulls_last, nulls_at_end) ==
    LET self == adapters[s]
        ser == natives[self.native]
        sort == NativeCall("sort", self.native, <<>>)
        sorted == NativeSortLegacy(ser.vals, descending, nulls_at_end)
        is_null == IsNull(sorted)
        not_null == [i \in DOMAIN is_null |-> ~is_null[i]]
    IN IF TupleLess(self.backend_version, <<0, 20, 6>>)
       THEN IF nulls_last
            THEN ReturnedNew(<<sort, NativeCall("is_null", 0, <<>>),
                               NativeCall("filter", 0, <<>>), NativeCall("filter", 0, <<>>),
                               NativeCall("concat", 0, <<>>)>>,
                             [ser EXCEPT !.vals = SelectIdx(sorted, not_null)
                                                     \o SelectIdx(sorted, is_null)],
                             from_native_series(self, NewId))
            ELSE ReturnedNew(<<sort>>, [ser EXCEPT !.vals = sorted],
                             from_native_series(self, NewId))
       ELSE ReturnedNew(<<sort>>,
                        [ser EXCEPT !.vals = NativeSort(ser.vals, descending, nulls_last)],
                        from_native_series(self, NewId))

\* scatter that writes into the wrapped series itself.
PolarsScatterInPlace(s, indices, values) ==
    LET self == adapters[s]
        ser == natives[self.native]
        ex == extract_native(values)
        r == NativeScatter(ser.vals, indices, ex.operand)
        scatter == NativeCall("scatter", self.native, <<ex.operand>>)
    IN IF ex.err # "" THEN Raised(ex.err, <<>>)
       ELSE IF r.err # "" THEN Raised(r.err, <<scatter>>)
       ELSE [ReturnedSame(<<scatter>>, self.native, from_native_series(self, self.native))
             EXCEPT !.mut = [id |-> self.native, vals |-> r.vals]]

\* PolarsSeries.scatter(indices, values): the native scatter, which writes in
\* place, on a clone of the wrapped series.
PolarsScatter(s, indices, values) ==
    LET self == adapters[s]
        ser == natives[self.native]
        ex == extract_native(values)
        r == NativeScatter(ser.vals, indices, ex.operand)
        clone == NativeCall("clone", self.native, <<>>)
        scatter == NativeCall("scatter", 0, <<ex.operand>>)
    IN IF ex.err # "" THEN Raised(ex.err, <<>>)
       ELSE IF r.err # "" THEN Raised(r.err, <<clone, scatter>>)
       ELSE ReturnedNew(<<clone, scatter>>, [ser EXCEPT !.vals = r.vals],
                        from_native_series(self, NewId))

(***************************************************************************)
(* PandasSeries.                                                           *)
(***************************************************************************)
\* PandasSeries.__init__ without the normalisation of the name.
PandasInitRawName(nid, series, implementation) ==
    [cls |-> "PandasSeries", native |-> nid, backend_version |-> <<>>,
     implementation |-> implementation, version |-> "",
     name |-> series.name,
     use_copy_false |-> implementation = "pandas" /\ TupleLess(pdVersion, <<3, 0, 0>>)]

\* PandasSeries.__init__(series, implementation), series the native object
\* and nid its place on the heap.
PandasInit(nid, series, implementation) ==
    [cls |-> "PandasSeries", native |-> nid, backend_version |-> <<>>,
     implementation |-> implementation, version |-> "",
     name |-> IF series.name.tag # "none" THEN StrName(series.name.text)
              ELSE StrName(""),
     use_copy_false |-> implementation = "pandas" /\ TupleLess(pdVersion, <<3, 0, 0>>)]

\* self._from_series(series)
from_series(self, nid, series) == PandasInit(nid, series, self.implementation)

\* PandasSeries.name
PandasName(a) == adapters[a].name

\* self._rename(series, name): the native rename, which returns a new series
\* object (sharing the data when copy=False).
rename(self, series, name) == [series EXCEPT !.name = name]

\* PandasSeries.__eq__ .. __rmod__: validate_column_comparand, the native
\* operator, _rename to the left operand's name, _from_series.
PandasBinary(s, op, other) ==
    LET self == adapters[s]
        ser == natives[self.native]
        al == validate_column_comparand(ser.index, other)
        call == NativeCall(op, self.native, <<al.operand>>)
        r == NativeBinary("pandas", op, ser, al.operand, <<>>)
        result == rename(self, r.obj, ser.name)
    IN IF al.err # "" THEN Raised(al.err, <<>>)
       ELSE IF r.err # "" THEN Raised(r.err, <<call>>)
       ELSE ReturnedNew(<<call>>, result, from_series(self, NewId, result))

\* The native call self._rename makes.
RenameCall(self, recv, name) ==
    NativeCall("rename", recv,
               <<Named("str", name.text)>>
                  \o (IF self.use_copy_false THEN <<Named("copy", "False")>> ELSE <<>>))

\* PandasSeries.rename(name) and PandasSeries.alias(name)
PandasRename(s, name) ==
    LET self == adapters[s]
        ser == natives[self.native]
        renamed == rename(self, ser, StrName(name))
    IN ReturnedNew(<<RenameCall(self, self.native, StrName(name))>>, renamed,
                   from_series(self, NewId, renamed))

\* PandasSeries.cast(dtype)
PandasCast(s, dtype) ==
    LET self == adapters[s]
        ser == natives[self.native]
        dt == reverse_translate_dtype(dtype)
        r == NativeAstype(ser.vals, dt.dtype)
        call == NativeCall("astype", self.native, <<Named("dtype", dt.dtype)>>)
        cast == [ser EXCEPT !.vals = r.vals, !.dtype = dt.dtype]
    IN IF dt.err # "" THEN Raised(dt.err, <<>>)
       ELSE IF r.err # "" THEN Raised(r.err, <<call>>)
       ELSE ReturnedNew(<<call>>, cast, from_series(self, NewId, cast))

\* PandasSeries.filter(mask).  A row label given as mask selects one value,
\* which has no name for __init__ to read.
PandasFilter(s, mask) ==
    LET self == adapters[s]
        ser == natives[self.native]
        al == validate_column_comparand(ser.index, mask)
        r == NativeLoc(ser, al.operand)
        call == NativeCall("loc", self.native, <<al.operand>>)
    IN IF al.err # "" THEN Raised(al.err, <<>>)
       ELSE IF r.err # "" THEN Raised(r.err, <<call>>)
       ELSE IF r.kind = "scalar" THEN Raised("AttributeError", <<call>>)
       ELSE ReturnedNew(<<call>>, r.obj, from_series(self, NewId, r.obj))

\* PandasSeries.is_in(other), other a list of ints: the nulls of the series
\* are written into the native result, a series of its own.
PandasIsIn(s, other) ==
    LET self == adapters[s]
        ser == natives[self.native]
        isin == NativeIsIn(ser, other)
        res == [isin EXCEPT !.vals = [i \in DOMAIN isin.vals |->
                                         IF ser.vals[i].null THEN NullE ELSE isin.vals[i]]]
    IN ReturnedNew(<<NativeCall("isin", self.native, <<>>),
                     NativeCall("convert_dtypes", 0, <<>>),
                     NativeCall("isna", self.native, <<>>),
                     NativeCall("__setitem__", 0, <<>>)>>,
                   res, from_series(self, NewId, res))

\* PandasSeries.zip_with(mask, other)
PandasZipWith(s, mask, other) ==
    LET self == adapters[s]
        ser == natives[self.native]
        m == validate_column_comparand(ser.index, mask)
        o == validate_column_comparand(ser.index, other)
        r == NativeWhere(ser, m.operand, o.operand)
        call == NativeCall("where", self.native, <<m.operand, o.operand>>)
    IN IF m.err # "" THEN Raised(m.err, <<>>)
       ELSE IF o.err # "" THEN Raised(o.err, <<>>)
       ELSE IF r.err # "" THEN Raised(r.err, <<call>>)
       ELSE ReturnedNew(<<call>>, r.obj, from_series(self, NewId, r.obj))

\* PandasSeries.sort(descending=)
PandasSort(s, descending) ==
    LET self == adapters[s]
        ser == natives[self.native]
        sorted == [NativeSortValues(ser, ~descending) EXCEPT !.name = PandasName(s)]
    IN ReturnedNew(<<NativeCall("sort_values", self.native, <<>>),
                     NativeCall("rename", 0, <<Named("str", PandasName(s).text)>>)>>,
                   sorted, from_series(self, NewId, sorted))

(***************************************************************************)
(* Inputs.                                                                 *)
(***************************************************************************)
\* What a caller constructs adapters around: a native series, and the
\* backend version (polars) or the implementation (pandas-like) it states.
SeriesInputs ==
    <<[obj |-> NativeSeries("polars", <<V(2), NullE, V(1)>>, StrName("x"), "Int64", <<>>),
       backend_version |-> <<0, 9, 9>>, implementation |-> "polars"],
      [obj |-> NativeSeries("polars", <<V(1), NullE, V(2), V(0), V(1)>>, StrName(""),
                            "Int64", <<>>),
       backend_version |-> <<1, 0, 0>>, implementation |-> "polars"],
      [obj |-> NativeSeries("polars", <<V(2)>>, StrName("y"), "Int64", <<>>),
       backend_version |-> <<1, 16, 1>>, implementation |-> "polars"],
      [obj |-> NativeSeries("pandas", <<V(2), NullE, V(1)>>, NoneName, "Int64",
                            RangeIndex(3)),
       backend_version |-> <<>>, implementation |-> "pandas"],
      [obj |-> NativeSeries("pandas", <<V(1), V(0), NullE, V(2), V(1)>>, StrName("x"),
                            "Int64", RangeIndex(5)),
       backend_version |-> <<>>, implementation |-> "modin"],
      [obj |-> NativeSeries("pandas", <<V(2)>>, IntName("7"), "Int64", RangeIndex(1)),
       backend_version |-> <<>>, implementation |-> "pandas"]>>

\* Series of several dtypes, for the calls of the other methods.
MethodInputs ==
    <<[obj |-> NativeSeries("polars", <<V(2), NullE, V(1)>>, StrName("x"), "Int64", <<>>),
       backend_version |-> <<0, 9, 9>>, implementation |-> "polars"],
      [obj |-> NativeSeries("polars", <<V(1), NullE, V(0)>>, StrName(""), "Int64", <<>>),
       backend_version |-> <<1, 0, 0>>, implementation |-> "polars"],
      [obj |-> NativeSeries("polars", <<V(1), V(0), NullE>>, StrName("m"), "Boolean", <<>>),
       backend_version |-> <<1, 16, 1>>, implementation |-> "polars"],
      [obj |-> NativeSeries("polars", <<V(3), NullE>>, StrName("t"), "Datetime", <<>>),
       backend_version |-> <<1, 0, 0>>, implementation |-> "polars"],
      [obj |-> NativeSeries("polars", <<V(1), V(0), V(1)>>, StrName("c"), "Categorical",
                            <<>>),
       backend_version |-> <<0, 20, 5>>, implementation |-> "polars"],
      [obj |-> NativeSeries("pandas", <<V(2), NullE, V(1)>>, NoneName, "Int64",
                            RangeIndex(3)),
       backend_version |-> <<>>, implementation |-> "pandas"],
      [obj |-> NativeSeries("pandas", <<V(1), V(0), V(1)>>, IntName("7"), "Boolean",
                            RangeIndex(3)),
       backend_version |-> <<>>, implementation |-> "modin"]>>

\* The installed pandas, as parse_version(pd.__version__).
PandasVersions == {<<2, 2, 3>>, <<3, 0, 0>>}

\* The scalar operands.
ScalarInputs == {V(2), NullE}

\* The adapter instances of class cls the caller constructed.
SeriesIds(cls) == {a \in 1..NumConstructed : adapters[a].cls = cls}

\* The operands of a call: a scalar or an adapter instance the caller
\* constructed.
Operands == {Scalar(e) : e \in ScalarInputs} \cup {Wrapped(a) : a \in 1..NumConstructed}

\* The binary operators the calls of the other methods are mixed with.
MixedBinOps == {"__eq__", "__and__", "__add__"}

\* The names looked up on a PolarsSeries that the class does not define.
LookupAttrs == NativeAttrs \cup {"as_py", "no_such_method"}

\* The arguments of a forwarded call.
ForwardArgs == {<<>>} \cup {<<x>> : x \in Operands}

NamespaceCalls == NamespaceAttrs \cup {<<"dt", "no_such_method">>}

ReplaceInputs ==
    {[old |-> <<V(0), V(1), V(2)>>, new |-> <<V(5), V(6), V(7)>>],
     [old |-> <<V(1)>>, new |-> <<V(9)>>]}

ReturnDtypes == {"", "nw.Float64", "nw.Int128"}

EwmInputs == {{}, {"alpha"}, {"com", "span"}}

ScatterIndices == {<<0>>, <<0, 2>>, <<7>>}

Versions == {"V1", "MAIN"}

NewNames == {"z", ""}

IsInInputs == {{1, 2}, {}}

NoPending == [self |-> 0, attr |-> ""]

(***************************************************************************)
(* Actions: one call of a method of an adapter instance each.              *)
(***************************************************************************)
\* self <op> other on a PolarsSeries
PolarsBinOp ==
    \E s \in SeriesIds("PolarsSeries"), op \in PolarsBinOps, other \in Operands :
        Commit(op, s, <<other>>, NoFlags, PolarsBinary(s, op, other), NoPending)

\* self <op> other on a PandasSeries
PandasBinOp ==
    \E s \in SeriesIds("PandasSeries"), op \in PandasBinOps, other \in Operands :
        Commit(op, s, <<other>>, NoFlags, PandasBinary(s, op, other), NoPending)

PolarsMixedBinOp ==
    \E s \in SeriesIds("PolarsSeries"), op \in MixedBinOps, other \in Operands :
        Commit(op, s, <<other>>, NoFlags, PolarsBinary(s, op, other), NoPending)

PandasMixedBinOp ==
    \E s \in SeriesIds("PandasSeries"), op \in MixedBinOps, other \in Operands :
        Commit(op, s, <<other>>, NoFlags, PandasBinary(s, op, other), NoPending)

\* A method call that returns no function.
Call(opname, s, args, flags, o) == Commit(opname, s, args, flags, o, NoPending)

\* series.<attr>, attr a name PolarsSeries does not define.
PolarsGetAttrOp ==
    \E s \in SeriesIds("PolarsSeries"), attr \in LookupAttrs :
        LET o == PolarsGetAttr(s, attr)
        IN Commit("__getattr__", s, <<Named("str", attr)>>, NoFlags, o,
                  IF o.ret.kind = "func" THEN [self |-> s, attr |-> attr] ELSE NoPending)

\* func(*args), func the function the lookup before returned.
PolarsForwardCall ==
    /\ pending.self # 0
    /\ \E args \in ForwardArgs :
          LET o == PolarsForward(pending.self, pending.attr, args)
          IN /\ (o.mut.id # 0) => Len(o.mut.vals) <= MaxLen
             /\ Commit("forwarded", pending.self, <<Named("str", pending.attr)>> \o args,
                       NoFlags, o, NoPending)

\* series.dt.<attr>(), series.str.<attr>(), series.cat.<attr>()
PolarsNamespaceCall ==
    \E s \in SeriesIds("PolarsSeries"), c \in NamespaceCalls :
        Call("namespace", s, <<Named("str", c[1]), Named("str", c[2])>>, NoFlags,
             PolarsNamespace(s, c[1], c[2]))

PolarsChangeVersionOp ==
    \E s \in SeriesIds("PolarsSeries"), version \in Versions :
        Call("_change_version", s, <<Named("version", version)>>, NoFlags,
             PolarsChangeVersion(s, version))

PolarsCastOp ==
    \E s \in SeriesIds("PolarsSeries"), dtype \in AbstractDtypes :
        Call("cast", s, <<Named("dtype", dtype)>>, NoFlags, PolarsCast(s, dtype))

PolarsReplaceStrictOp ==
    \E s \in SeriesIds("PolarsSeries"), r \in ReplaceInputs, return_dtype \in ReturnDtypes :
        Call("replace_strict", s, <<Named("dtype", return_dtype)>>, NoFlags,
             PolarsReplaceStrict(s, r.old, r.new, return_dtype))

PolarsEwmMeanOp ==
    \E s \in SeriesIds("PolarsSeries"), given \in EwmInputs, min_periods \in 1..2 :
        Call("ewm_mean", s, <<>>, NoFlags, PolarsEwmMean(s, given, min_periods))

PolarsSortOp ==
    \E s \in SeriesIds("PolarsSeries"), descending, nulls_last, nulls_at_end \in BOOLEAN :
        Call("sort", s, <<>>, [descending |-> descending, nulls_last |-> nulls_last],
             PolarsSort(s, descending, nulls_last, nulls_at_end))

PolarsScatterOp ==
    \E s \in SeriesIds("PolarsSeries"), indices \in ScatterIndices, values \in Operands :
        Call("scatter", s, <<values>>, NoFlags, PolarsScatter(s, indices, values))

PandasRenameOp ==
    \E s \in SeriesIds("PandasSeries"), m \in {"rename", "alias"}, name \in NewNames :
        Call(m, s, <<Named("str", name)>>, NoFlags, PandasRename(s, name))

PandasCastOp ==
    \E s \in SeriesIds("PandasSeries"), dtype \in AbstractDtypes :
        Call("cast", s, <<Named("dtype", dtype)>>, NoFlags, PandasCast(s, dtype))

PandasFilterOp ==
    \E s \in SeriesIds("PandasSeries"), mask \in Operands :
        Call("filter", s, <<mask>>, NoFlags, PandasFilter(s, mask))

PandasIsInOp ==
    \E s \in SeriesIds("PandasSeries"), other \in IsInInputs :
        Call("is_in", s, <<>>, NoFlags, PandasIsIn(s, other))

PandasZipWithOp ==
    \E s \in SeriesIds("PandasSeries"), mask \in {x \in Operands : x.kind = "adapter"},
       other \in Operands :
        Call("zip_with", s, <<mask, other>>, NoFlags, PandasZipWith(s, mask, other))

PandasSortOp ==
    \E s \in SeriesIds("PandasSeries"), descending \in BOOLEAN :
        Call("sort", s, <<>>, [descending |-> descending, nulls_last |-> FALSE],
             PandasSort(s, descending))

(***************************************************************************)
(* Specifications.                                                         *)
(***************************************************************************)
\* The adapter a caller constructs around input inp, its native object at
\* place nid of the heap: PolarsSeries(...) or PandasSeries(...).
Constructed(nid, inp) ==
    IF inp.obj.engine = "polars"
    THEN PolarsInit(nid, inp.backend_version, "MAIN")
    ELSE PandasInit(nid, inp.obj, inp.implementation)

NoCall ==
    [op |-> "__init__", self |-> 0, recv |-> NoAdapter, before |-> <<>>, args |-> <<>>,
     flags |-> NoFlags, err |-> "", calls |-> <<>>, nret |-> Nothing, ret |-> Nothing]

\* The caller has constructed two adapters, each around a native series of
\* its own, drawn from inputs.
InitOf(inputs) ==
    /\ pdVersion \in PandasVersions
    /\ \E i \in DOMAIN inputs : \E j \in i..Len(inputs) :
          /\ natives = <<inputs[i].obj, inputs[j].obj>>
          /\ adapters = <<Constructed(1, inputs[i]), Constructed(2, inputs[j])>>
    /\ latest = 0
    /\ pending = NoPending
    /\ last = NoCall

Init == InitOf(MethodInputs)

Next ==
    \/ PolarsMixedBinOp
    \/ PandasMixedBinOp
    \/ PolarsGetAttrOp
    \/ PolarsForwardCall
    \/ PolarsNamespaceCall
    \/ PolarsChangeVersionOp
    \/ PolarsCastOp
    \/ PolarsReplaceStrictOp
    \/ PolarsEwmMeanOp
    \/ PolarsSortOp
    \/ PolarsScatterOp
    \/ PandasRenameOp
    \/ PandasCastOp
    \/ PandasFilterOp
    \/ PandasIsInOp
    \/ PandasZipWithOp
    \/ PandasSortOp

\* Every method of both adapters, on series of every dtype.
Spec == Init /\ [][Next]_vars

InitBinary == InitOf(SeriesInputs)

NextBinary ==
    \/ PolarsBinOp
    \/ PandasBinOp

\* Every binary operator of both adapters.
SpecBinary == InitBinary /\ [][NextBinary]_vars

\* The series sort is called on: every sequence of at most MaxSortLen
\* values from null, 0 .. MaxSortVal.
SortValues == {NullE} \cup {V(n) : n \in 0..MaxSortVal}

SortSeries == UNION {[1..n -> SortValues] : n \in 0..MaxSortLen}

\* The backend versions about the threshold of sort.
SortVersions == {<<0, 9, 9>>, <<0, 20, 5>>, <<0, 20, 6>>, <<1, 0, 0>>}

\* The caller has constructed one PolarsSeries.
InitSort ==
    /\ pdVersion \in PandasVersions
    /\ \E vals \in SortSeries, bv \in SortVersions :
          /\ natives = <<NativeSeries("polars", vals, StrName("x"), "Int64", <<>>)>>
          /\ adapters = <<PolarsInit(1, bv, "MAIN")>>
    /\ latest = 0
    /\ pending = NoPending
    /\ last = NoCall

NextSort == PolarsSortOp

\* PolarsSeries.sort on every short series, at versions on both sides of
\* the threshold.
SpecSort == InitSort /\ [][NextSort]_vars

(***************************************************************************)
(* Properties.                                                             *)
(***************************************************************************)
\* The latest call was a binary operator with an adapter instance of class
\* cls as its operand.
BinaryWith(cls) ==
    /\ last.op \in PolarsBinOps \cup PandasBinOps
    /\ last.args[1].kind = "adapter"
    /\ last.args[1].cls = cls

OtherEngine(cls) == IF cls = "PolarsSeries" THEN "PandasSeries" ELSE "PolarsSeries"

\* C1: a binary operator of either adapter whose operand is a series wrapped
\* by the other engine's adapter raises CrossEngineOperand, and has made no
\* native call (the foreign object is neither passed on nor converted).
CrossEngineOperandRaises ==
    BinaryWith(OtherEngine(last.recv.cls)) =>
        /\ last.err = "CrossEngineOperand"
        /\ last.calls = <<>>

\* A PolarsSeries operator was given a PandasSeries and refused it.
CrossEngineCallMade ==
    /\ BinaryWith("PandasSeries")
    /\ last.recv.cls = "PolarsSeries"
    /\ last.err = "CrossEngineOperand"

\* C2: a binary operator on two series of one engine, of lengths 3 and 5,
\* raises ShapeMismatch without a native operator being invoked.
ShapeMismatchBeforeNativeCall ==
    (/\ BinaryWith(last.recv.cls)
     /\ {Len(last.before), last.args[1].len} = {3, 5}) =>
        /\ last.err = "ShapeMismatch"
        /\ last.calls = <<>>

\* The values of the series the latest call returned.
Returned == natives[adapters[latest].native].vals

\* The latest call was PolarsSeries.sort(descending=True, nulls_last=True)
\* on a series with nulls.
SortedNullsLast ==
    /\ last.op = "sort"
    /\ last.recv.cls = "PolarsSeries"
    /\ last.flags.descending
    /\ last.flags.nulls_last
    /\ HasNulls(last.before)

\* C3: sort(descending=True, nulls_last=True) on a series with nulls returns
\* a series of the same length with every null after every other value, and
\* the same series on either side of the version threshold: the one the
\* native sort with nulls_last gives.
SortNullsLastSameAcrossVersions ==
    SortedNullsLast =>
        /\ last.err = ""
        /\ latest # 0
        /\ Len(Returned) = Len(last.before)
        /\ \A i, j \in DOMAIN Returned : (i < j /\ Returned[i].null) => Returned[j].null
        /\ Returned = NativeSort(last.before, TRUE, TRUE)

\* The older branch has moved the nulls of a series behind its values.
SortedOnOlderEngine ==
    /\ SortedNullsLast
    /\ TupleLess(last.recv.backend_version, <<0, 20, 6>>)
    /\ Len(last.calls) > 1
    /\ ~last.before[Len(last.before)].null
    /\ Returned[Len(Returned)].null

\* The latest call was replace_strict or ewm_mean on a PolarsSeries whose
\* stored backend version is bv.
GatedCallAt(bv) ==
    /\ last.op \in {"replace_strict", "ewm_mean"}
    /\ last.recv.cls = "PolarsSeries"
    /\ last.recv.backend_version = bv

\* C4: replace_strict and ewm_mean at backend version (0,9,9) end in the
\* not-available-in-this-version error, whatever the arguments, and without
\* a native call; at (1,0,0) they do not raise it and call the native method.
VersionGateDecidesFirst ==
    /\ GatedCallAt(<<0, 9, 9>>) =>
          /\ last.err = "NotImplementedError"
          /\ last.calls = <<>>
    /\ GatedCallAt(<<1, 0, 0>>) =>
          /\ last.err # "NotImplementedError"
          /\ last.calls # <<>>

\* The adapter the latest call returned wraps the object the native call
\* returned, as class cls, with the receiver's backend version and version.
WrappedAs(cls) ==
    /\ latest # 0
    /\ last.ret = Wrapped(latest)
    /\ adapters[latest].cls = cls
    /\ adapters[latest].native = last.nret.id
    /\ adapters[latest].backend_version = last.recv.backend_version
    /\ adapters[latest].version = last.recv.version

\* The latest call returned what the native call returned, as it is.
Unwrapped ==
    /\ latest = 0
    /\ last.ret = last.nret

\* The argument the native call must get for argument x of the adapter call.
UnwrappedArg(x) ==
    IF x.kind = "adapter" THEN NativeRef(adapters[x.id].native)
    ELSE [kind |-> x.kind, id |-> x.id, val |-> x.val, text |-> x.text]

\* C5: a call forwarded by PolarsSeries.__getattr__ hands the native method
\* its arguments with every adapter among them unwrapped, and returns a
\* native series wrapped as a PolarsSeries, a native table wrapped as a
\* PolarsDataFrame (each with the receiver's backend version and version),
\* and any other value as it is.
ForwardedResultClassified ==
    last.op = "forwarded" =>
        /\ Len(last.calls) = 2 =>
              last.calls[2].args =
                 [i \in 1..(Len(last.args) - 1) |-> UnwrappedArg(last.args[i + 1])]
        /\ last.err = "" =>
              /\ Len(last.calls) = 2
              /\ last.nret.kind \in {"native", "scalar"}
              /\ (last.nret.kind = "native" /\ natives[last.nret.id].kind = "series")
                    => WrappedAs("PolarsSeries")
              /\ (last.nret.kind = "native" /\ natives[last.nret.id].kind = "frame")
                    => WrappedAs("PolarsDataFrame")
              /\ last.nret.kind = "scalar" => Unwrapped

\* The forwarded filter was called with an adapter as its mask and returned
\* a series.
ForwardedFilterWrapped ==
    /\ last.op = "forwarded"
    /\ last.args[1].text = "filter"
    /\ Len(last.args) = 2
    /\ last.args[2].kind = "adapter"
    /\ last.err = ""
    /\ WrappedAs("PolarsSeries")

\* C6: a call forwarded by the dt, str or cat namespace of a PolarsSeries
\* returns a native series wrapped as a PolarsSeries with the owner's
\* backend version and version, and any other value as it is, unwrapped.
NamespaceResultClassified ==
    (last.op = "namespace" /\ last.err = "") =>
        /\ last.nret.kind = "native" => WrappedAs("PolarsSeries")
        /\ last.nret.kind = "scalar" => Unwrapped

\* C7: the lookup of as_py on a PolarsSeries raises AttributeError and
\* returns no function; the lookup of any other name the class does not
\* define returns a forwarding function; neither reads or calls anything of
\* the native series.
SentinelLookupRaises ==
    last.op = "__getattr__" =>
        /\ last.calls = <<>>
        /\ last.args[1].text = "as_py" =>
              /\ last.err = "AttributeError"
              /\ last.ret = Nothing
              /\ pending = NoPending
        /\ last.args[1].text # "as_py" =>
              /\ last.err = ""
              /\ last.ret = Func(last.self, last.args[1].text)
              /\ pending = [self |-> last.self, attr |-> last.args[1].text]

\* as_py was looked up.
SentinelLookedUp ==
    /\ last.op = "__getattr__"
    /\ last.args[1].text = "as_py"
    /\ last.err = "AttributeError"

\* The adapters the caller constructed are as they were, and so is the
\* native object of each.
ReceiversKept ==
    \A a \in 1..NumConstructed :
        /\ adapters'[a] = adapters[a]
        /\ natives'[adapters[a].native] = natives[adapters[a].native]

\* The step is a forwarded call of a native method that writes in place, and
\* has written to the native object of its receiver only.
ForwardedInPlace ==
    /\ last'.op = "forwarded"
    /\ last'.args[1].text = "extend"
    /\ \A a \in 1..NumConstructed :
          /\ adapters'[a] = adapters[a]
          /\ adapters[a].native # last'.recv.native =>
                natives'[adapters[a].native] = natives[adapters[a].native]
          /\ natives'[adapters[a].native].name = natives[adapters[a].native].name
          /\ natives'[adapters[a].native].dtype = natives[adapters[a].native].dtype

\* A call that returns an adapter returns an instance that was not there.
ReturnsNewInstance == latest' # 0 => latest' > NumConstructed

\* C8 as stated: no call of an adapter method changes the adapter it is
\* called on, the native object the adapter wraps or the contents of that
\* object, and a call that yields a series returns a new adapter instance.
ReceiverNeverChanges == [][ReceiversKept /\ ReturnsNewInstance]_vars

\* C8: no call of an adapter method changes an adapter or the native object
\* it wraps, except a forwarded call of a native method that writes in
\* place, which changes the values of its receiver's native object only;
\* scatter writes to a clone; a call that yields a series returns a new
\* adapter instance.
ReceiverChangesOnlyInPlace ==
    [][/\ ReceiversKept \/ ForwardedInPlace
       /\ last'.op = "scatter" => ReceiversKept
       /\ ReturnsNewInstance]_vars

\* scatter has returned a series that differs from its receiver's, which is
\* as it was.
ScatterWroteToClone ==
    /\ last.op = "scatter"
    /\ last.err = ""
    /\ latest # 0
    /\ Returned # last.before
    /\ natives[last.recv.native].vals = last.before

\* The adapter instances that are series.
AllSeries == {a \in DOMAIN adapters : adapters[a].cls \in {"PolarsSeries", "PandasSeries"}}

\* C9: no two adapter series instances wrap the same native object.
NativeOwnedExclusively ==
    \A a, b \in AllSeries : a # b => adapters[a].native # adapters[b].native

\* PolarsSeries.name and PandasSeries.name of adapter instance a.
NameOf(a) == IF adapters[a].cls = "PolarsSeries" THEN PolarsName(a) ELSE PandasName(a)

MedianDtypes == {"Int64", "Float64", "Boolean", "String", "Datetime"}

\* narwhals._polars.utils.native_to_narwhals_dtype(dtype, version,
\* backend_version): the abstract dtype of a polars dtype, Unknown for one it
\* does not recognise.
native_to_narwhals_dtype(dtype, version, backend_version) ==
    IF dtype \in {"Int64", "Float64", "Boolean", "String", "Datetime", "Categorical"}
    THEN "nw." \o dtype
    ELSE "nw.Unknown"

\* DType.is_numeric(): the integer and floating-point dtypes.
is_numeric(dtype) == dtype \in {"nw.Int64", "nw.Int128", "nw.Float64"}

\* PolarsSeries.dtype
PolarsDtype(s) ==
    native_to_narwhals_dtype(natives[adapters[s].native].dtype, adapters[s].version,
                             adapters[s].backend_version)

\* A number with a half: n / 2.
Half(n) == [kind |-> "scalar", id |-> 0, val |-> V(n), text |-> "/2"]

\* series.median() of either engine: the middle of the values that are not
\* null, in order (the mean of the two middle ones when they are even in
\* number), null when there are none; strings have no median.
NativeMedian(n) ==
    LET sorted == SortVals(SelectIdx(n.vals, NotNull(n.vals)), FALSE)
        k == Len(sorted)
    IN IF n.dtype = "String" THEN [err |-> "TypeError", val |-> Nothing]
       ELSE IF k = 0 THEN [err |-> "", val |-> Scalar(NullE)]
       ELSE [err |-> "", val |-> Half(sorted[(k + 1) \div 2].v + sorted[(k + 2) \div 2].v)]

\* PolarsSeries.median()
PolarsMedian(s) ==
    LET self == adapters[s]
        r == NativeMedian(natives[self.native])
        dtype == NativeCall("dtype", self.native, <<>>)
        call == NativeCall("median", self.native, <<>>)
    IN IF ~is_numeric(PolarsDtype(s)) THEN Raised("InvalidOperationError", <<dtype>>)
       ELSE IF r.err # "" THEN Raised(r.err, <<dtype, call>>)
       ELSE ReturnedValue(<<dtype, call>>, r.val, r.val)

\* PandasSeries.median()
PandasMedian(s) ==
    LET self == adapters[s]
        r == NativeMedian(natives[self.native])
        call == NativeCall("median", self.native, <<>>)
    IN IF r.err # "" THEN Raised(r.err, <<call>>)
       ELSE ReturnedValue(<<call>>, r.val, r.val)

PolarsMedianOp ==
    \E s \in SeriesIds("PolarsSeries") : Call("median", s, <<>>, NoFlags, PolarsMedian(s))

PandasMedianOp ==
    \E s \in SeriesIds("PandasSeries") : Call("median", s, <<>>, NoFlags, PandasMedian(s))

\* The caller has constructed one adapter, of either engine, around a short
\* series of one of dtypes.
InitOne(dtypes) ==
    /\ pdVersion \in PandasVersions
    /\ \E vals \in SortSeries, dtype \in dtypes :
          \/ \E bv \in SortVersions :
                /\ natives = <<NativeSeries("polars", vals, StrName("x"), dtype, <<>>)>>
                /\ adapters = <<PolarsInit(1, bv, "MAIN")>>
          \/ \E impl \in {"pandas", "modin"} :
                LET ser == NativeSeries("pandas", vals, StrName("x"), dtype,
                                        RangeIndex(Len(vals)))
                IN /\ natives = <<ser>>
                   /\ adapters = <<PandasInit(1, ser, impl)>>
    /\ latest = 0
    /\ pending = NoPending
    /\ last = NoCall

InitMedian == InitOne(MedianDtypes)

NextMedian ==
    \/ PolarsMedianOp
    \/ PandasMedianOp

\* median of both adapters, on short series of every dtype.
SpecMedian == InitMedian /\ [][NextMedian]_vars

\* The native median was called.
MedianCalled == \E i \in DOMAIN last.calls : last.calls[i].method = "median"

\* C11: median on a series whose dtype is not numeric raises
\* InvalidOperation without calling the native median, on PolarsSeries and
\* on PandasSeries; on a numeric series it returns what the native median
\* returns.
MedianRefusesNonNumeric ==
    last.op = "median" =>
        IF natives[last.recv.native].dtype \in {"Int64", "Float64"}
        THEN /\ last.err = ""
             /\ MedianCalled
             /\ last.ret = last.nret
        ELSE /\ last.err = "InvalidOperationError"
             /\ ~MedianCalled

(***************************************************************************)
(* PandasSeries.is_nan.                                                    *)
(***************************************************************************)
\* ser.isna(): true where pandas finds a missing value, which is None, NA
\* and NaN alike.
NativeIsNa(n) ==
    [n EXCEPT !.dtype = "bool",
              !.vals = [i \in DOMAIN n.vals |-> Bool(n.vals[i].null \/ IsNaN(n.vals[i]))]]

\* ser.fillna(value)
NativeFillNa(n, value) ==
    [n EXCEPT !.vals = [i \in DOMAIN n.vals |-> IF n.vals[i].null THEN value ELSE n.vals[i]]]

\* PandasSeries.is_nan()
PandasIsNan(s) ==
    LET self == adapters[s]
        ser == natives[self.native]
        ne == NativeBinary("pandas", "__ne__", ser, NativeRef(self.native), <<>>)
        filled == NativeFillNa(ne.obj, Bool(FALSE))
        isna == NativeIsNa(ser)
    IN IF is_extension_array_dtype(ser.dtype)
       THEN ReturnedNew(<<NativeCall("__ne__", self.native, <<NativeRef(self.native)>>),
                          NativeCall("fillna", 0, <<Scalar(Bool(FALSE))>>)>>,
                        filled, from_series(self, NewId, filled))
       ELSE ReturnedNew(<<NativeCall("isna", self.native, <<>>)>>, isna,
                        from_series(self, NewId, isna))

PandasIsNanOp ==
    \E s \in SeriesIds("PandasSeries") : Call("is_nan", s, <<>>, NoFlags, PandasIsNan(s))

\* The values of the series is_nan is called on.
IsNanValues == {NullE, NaN, V(0), V(1)}

\* The pandas dtypes of the series is_nan is called on: two extension dtypes
\* and two of numpy.
IsNanDtypes == {"Float64", "Int64", "float64", "object"}

\* What a pandas series of dtype can hold: an integer series no NaN, and a
\* numpy float series no null of its own (it keeps a missing value as NaN).
Holds(dtype, vals) ==
    /\ dtype = "Int64" => \A i \in DOMAIN vals : ~IsNaN(vals[i])
    /\ dtype = "float64" => ~HasNulls(vals)

\* The caller has constructed one PandasSeries.
InitIsNan ==
    /\ pdVersion \in PandasVersions
    /\ \E n \in 0..MaxSortLen, dtype \in IsNanDtypes, impl \in {"pandas", "modin"} :
          \E vals \in [1..n -> IsNanValues] :
             LET ser == NativeSeries("pandas", vals, StrName("x"), dtype, RangeIndex(n))
             IN /\ Holds(dtype, vals)
                /\ natives = <<ser>>
                /\ adapters = <<PandasInit(1, ser, impl)>>
    /\ latest = 0
    /\ pending = NoPending
    /\ last = NoCall

NextIsNan == PandasIsNanOp

\* PandasSeries.is_nan on short series of extension and numpy dtypes.
SpecIsNan == InitIsNan /\ [][NextIsNan]_vars

\* C12: PandasSeries.is_nan returns a boolean series of the length of the
\* receiver that is true exactly where the receiver holds NaN, and false
\* everywhere else, where it holds a null included, for extension dtypes and
\* for the others.
IsNanMarksNaNOnly ==
    last.op = "is_nan" =>
        /\ last.err = ""
        /\ latest # 0
        /\ natives[adapters[latest].native].dtype \in {"Boolean", "bool"}
        /\ Len(Returned) = Len(last.before)
        /\ \A i \in DOMAIN Returned : Returned[i] = Bool(IsNaN(last.before[i]))

(***************************************************************************)
(* PolarsSeries.value_counts.                                              *)
(***************************************************************************)
\* A native table of several columns, each a name and its values.
NativeTable(columns) ==
    [kind |-> "frame", engine |-> "polars", vals |-> <<>>, name |-> NoneName,
     dtype |-> "", index |-> <<>>, columns |-> columns]

Column(name, vals) == [name |-> name, vals |-> vals]

RECURSIVE Uniques(_)
\* The distinct values of a series in the order they first appear, null
\* among them.
Uniques(vals) ==
    IF vals = <<>> THEN <<>>
    ELSE LET rest == Uniques(SubSeq(vals, 1, Len(vals) - 1))
             e == vals[Len(vals)]
         IN IF e \in Range(rest) THEN rest ELSE Append(rest, e)

\* The rows of a native value_counts: each distinct value with the number of
\* places that hold it, by falling count when sort is set.
CountRows(vals, sort) ==
    LET u == Uniques(vals)
        rows == [i \in DOMAIN u |->
                    [null |-> FALSE, v |-> Cardinality({j \in DOMAIN vals : vals[j] = u[i]}),
                     value |-> u[i]]]
    IN IF sort THEN SortVals(rows, TRUE) ELSE rows

\* A count as a proportion of the total.
Proportion(count, total) == [null |-> FALSE, v |-> count, of |-> total]

\* The two columns of a value_counts: the values, named after the series,
\* and the counts, or the counts divided by their sum, named count_name.
CountColumns(n, sort, normalize, count_name) ==
    LET rows == CountRows(n.vals, sort)
    IN <<Column(n.name.text, [i \in DOMAIN rows |-> rows[i].value]),
         Column(count_name,
                [i \in DOMAIN rows |->
                    IF normalize THEN Proportion(rows[i].v, Len(n.vals)) ELSE V(rows[i].v)])>>

\* pl.Series.value_counts(sort=, parallel=) before 1.0.0: the counts in a
\* column "count".
NativeValueCountsLegacy(n, sort) == CountColumns(n, sort, FALSE, "count")

\* pl.Series.value_counts(sort=, parallel=, name=, normalize=) from 1.0.0 on.
\* name is None or a str; the engine refuses a name the series has.
NativeValueCounts(n, sort, name, normalize) ==
    LET count_name == IF name.tag = "none"
                      THEN (IF normalize THEN "proportion" ELSE "count")
                      ELSE name.text
    IN IF count_name = n.name.text
       THEN [err |-> "polars.DuplicateError", columns |-> <<>>]
       ELSE [err |-> "", columns |-> CountColumns(n, sort, normalize, count_name)]

\* result.select(**{first: first_vals, second: second_vals}): the keyword
\* arguments are a dict, in which a key given twice keeps its last value.
SelectDict(first, first_vals, second, second_vals) ==
    IF first = second THEN <<Column(first, second_vals)>>
    ELSE <<Column(first, first_vals), Column(second, second_vals)>>

\* PolarsSeries.value_counts(sort=, parallel=, name=, normalize=)
PolarsValueCounts(s, sort, parallel, name, normalize) ==
    LET self == adapters[s]
        ser == natives[self.native]
        value_name_ == IF name.tag # "none" /\ name.text # "" THEN name.text
                       ELSE IF normalize THEN "proportion" ELSE "count"
        old == NativeValueCountsLegacy(ser, sort)
        count == old[2].vals
        total == Sum(count)
        selected == SelectDict(ser.name.text, old[1].vals, value_name_,
                               IF normalize
                               THEN [i \in DOMAIN count |-> Proportion(count[i].v, total)]
                               ELSE count)
        new == NativeValueCounts(ser, sort, name, normalize)
        call == NativeCall("value_counts", self.native, <<>>)
        frame == PolarsDataFrame(NewId, self.backend_version, self.version)
    IN IF TupleLess(self.backend_version, <<1, 0, 0>>)
       THEN ReturnedNew(<<call, NativeCall("select", 0, <<>>)>>, NativeTable(selected), frame)
       ELSE IF new.err # "" THEN Raised(new.err, <<call>>)
       ELSE ReturnedNew(<<call>>, NativeTable(new.columns), frame)

\* The names value_counts is called with: None, the empty string, the name
\* of the series and another.
CountNames == {NoneName, StrName(""), StrName("x"), StrName("n")}

\* A bool or a name as an argument of a call.
Flag(kind, b) == Named(kind, IF b THEN "True" ELSE "False")
NameArg(name) == IF name.tag = "none" THEN Nothing ELSE Named("str", name.text)

PolarsValueCountsOp ==
    \E s \in SeriesIds("PolarsSeries"), sort, parallel, normalize \in BOOLEAN,
       name \in CountNames :
        Call("value_counts", s,
             <<Flag("sort", sort), Flag("normalize", normalize), NameArg(name)>>, NoFlags,
             PolarsValueCounts(s, sort, parallel, name, normalize))

\* The backend versions about the threshold of value_counts.
CountVersions == {<<0, 20, 5>>, <<1, 0, 0>>}

\* The caller has constructed one PolarsSeries named x.
InitValueCounts ==
    /\ pdVersion \in PandasVersions
    /\ \E vals \in SortSeries, bv \in CountVersions :
          /\ natives = <<NativeSeries("polars", vals, StrName("x"), "Int64", <<>>)>>
          /\ adapters = <<PolarsInit(1, bv, "MAIN")>>
    /\ latest = 0
    /\ pending = NoPending
    /\ last = NoCall

NextValueCounts == PolarsValueCountsOp

\* PolarsSeries.value_counts on short series, on both sides of 1.0.0.
SpecValueCounts == InitValueCounts /\ [][NextValueCounts]_vars

\* C13: value_counts returns, below backend version 1.0.0 as from it on,
\* the same table for every sort, normalize and name: the values in a column
\* named after the series and the counts (divided by their total when
\* normalize is set) in a column named name, or "proportion" or "count"
\* when name is None.
ValueCountsSameAcrossVersions ==
    last.op = "value_counts" =>
        /\ last.err = ""
        /\ latest # 0
        /\ natives[adapters[latest].native].columns =
              CountColumns([vals |-> last.before, name |-> StrName("x")],
                           last.args[1].text = "True", last.args[2].text = "True",
                           IF last.args[3].kind = "none"
                           THEN (IF last.args[2].text = "True" THEN "proportion" ELSE "count")
                           ELSE last.args[3].text)

(***************************************************************************)
(* PolarsSeries.__contains__.                                              *)
(***************************************************************************)
\* type(other), as an f-string prints it.
TypeOf(other) ==
    IF other.kind = "scalar"
    THEN (IF other.val.null THEN "<class 'NoneType'>" ELSE "<class 'int'>")
    ELSE "<class '" \o other.kind \o "'>"

\* pl.Series.__contains__(other): None is in a series that has a null, an
\* int is looked up in a numeric series, a value of a type the dtype of the
\* series cannot be compared with is an invalid operation, and a list is no
\* value to look up.
NativeContains(n, other) ==
    IF other.kind = "list" THEN [err |-> "TypeError", found |-> FALSE]
    ELSE IF other.kind = "scalar" /\ other.val.null
    THEN [err |-> "", found |-> HasNulls(n.vals)]
    ELSE IF other.kind = "scalar" /\ n.dtype \in {"Int64", "Float64"}
    THEN [err |-> "", found |-> other.val \in Range(n.vals)]
    ELSE [err |-> "polars.InvalidOperationError", found |-> FALSE]

\* A bool a call returns.
PyBool(b) == Scalar(Bool(b))

\* An exception of class err raised with message msg from the exception
\* cause (raise ... from exc).
RaisedFrom(err, calls, msg, cause) ==
    [err |-> err, calls |-> calls, nret |-> Named("raised", cause), new |-> <<>>,
     adapter |-> <<>>, ret |-> Named("exception", msg), mut |-> NoMut]

\* An exception of the native call leaving the method as it is.
Propagated(err, calls) ==
    [err |-> err, calls |-> calls, nret |-> Named("raised", err), new |-> <<>>,
     adapter |-> <<>>, ret |-> Named("raised", err), mut |-> NoMut]

\* msg of PolarsSeries.__contains__
ContainsMsg(other_type, dtype) ==
    "Unable to compare other of type " \o other_type \o " with series of type "
        \o dtype \o "."

\* PolarsSeries.__contains__ with "except Exception" for its except clause.
PolarsContainsCatchAll(s, other) ==
    LET self == adapters[s]
        r == NativeContains(natives[self.native], other)
        call == NativeCall("__contains__", self.native, <<other>>)
    IN IF r.err = "" THEN ReturnedValue(<<call>>, PyBool(r.found), PyBool(r.found))
       ELSE RaisedFrom("InvalidOperationError", <<call>>,
                       ContainsMsg(TypeOf(other), PolarsDtype(s)), r.err)

\* PolarsSeries.__contains__(other)
PolarsContains(s, other) ==
    LET self == adapters[s]
        r == NativeContains(natives[self.native], other)
        call == NativeCall("__contains__", self.native, <<other>>)
    IN IF r.err = "" THEN ReturnedValue(<<call>>, PyBool(r.found), PyBool(r.found))
       ELSE IF r.err = "polars.InvalidOperationError"
       THEN RaisedFrom("InvalidOperationError", <<call>>,
                       ContainsMsg(TypeOf(other), PolarsDtype(s)), r.err)
       ELSE Propagated(r.err, <<call>>)

\* What a caller tests membership of: an int, None, a str and a list.
ContainsInputs ==
    {Scalar(e) : e \in SortValues} \cup {Named("str", "a"), Named("list", "")}

ContainsDtypes == {"Int64", "Float64", "Datetime"}

PolarsContainsOp ==
    \E s \in SeriesIds("PolarsSeries"), other \in ContainsInputs :
        Call("__contains__", s, <<other>>, NoFlags, PolarsContains(s, other))

\* The caller has constructed one PolarsSeries named x.
InitContains ==
    /\ pdVersion \in PandasVersions
    /\ \E vals \in SortSeries, dtype \in ContainsDtypes, bv \in CountVersions :
          /\ natives = <<NativeSeries("polars", vals, StrName("x"), dtype, <<>>)>>
          /\ adapters = <<PolarsInit(1, bv, "MAIN")>>
    /\ latest = 0
    /\ pending = NoPending
    /\ last = NoCall

NextContains == PolarsContainsOp

\* PolarsSeries.__contains__ on short series of several dtypes.
SpecContains == InitContains /\ [][NextContains]_vars

\* C14: __contains__ turns an invalid-operation exception of the native
\* membership test into the adapter's InvalidOperationError, raised from the
\* native one with the type of the operand and the dtype of the series in its
\* message; any other exception of the native test reaches the caller as it
\* is; and without an exception the native bool is what is returned.
ContainsConvertsInvalidOperationOnly ==
    last.op = "__contains__" =>
        LET n == natives[last.recv.native]
            r == NativeContains(n, last.args[1])
        IN IF r.err = "polars.InvalidOperationError"
           THEN /\ last.err = "InvalidOperationError"
                /\ last.nret = Named("raised", r.err)
                /\ last.ret.kind = "exception"
                /\ last.ret.text =
                      ContainsMsg(TypeOf(last.args[1]),
                                  native_to_narwhals_dtype(n.dtype, last.recv.version,
                                                           last.recv.backend_version))
           ELSE IF r.err # ""
           THEN /\ last.err = r.err
                /\ last.ret = Named("raised", r.err)
           ELSE /\ last.err = ""
                /\ last.ret = PyBool(r.found)
                /\ last.ret = last.nret

\* The native test refused the operand and the adapter's exception was
\* raised from the native one.
InvalidOperationConverted ==
    /\ last.op = "__contains__"
    /\ last.err = "InvalidOperationError"
    /\ last.nret = Named("raised", "polars.InvalidOperationError")

(***************************************************************************)
(* PandasSeries.sort, called with keyword arguments.                       *)
(***************************************************************************)
\* The keyword arguments a caller of sort may give: each of descending and
\* nulls_last is left out or given a bool.
SortKwargs ==
    LET given(kw) == {<<>>} \cup {<<Flag(kw, b)>> : b \in BOOLEAN}
    IN {d \o n : d \in given("descending"), n \in given("nulls_last")}

\* The keyword-only parameters of PandasSeries.sort.
PandasSortParams == {"descending"}

\* PandasSeries.sort(**kwargs): a keyword the signature does not have is a
\* TypeError of the call; descending is True when it is left out.
PandasSortCall(s, kwargs) ==
    LET given == {kwargs[i].kind : i \in DOMAIN kwargs}
        descending == \A i \in DOMAIN kwargs :
                          kwargs[i].kind = "descending" => kwargs[i].text = "True"
    IN IF ~(given \subseteq PandasSortParams) THEN Raised("TypeError", <<>>)
       ELSE PandasSort(s, descending)

PandasSortCallOp ==
    \E s \in SeriesIds("PandasSeries"), kwargs \in SortKwargs :
        Call("sort", s, kwargs, NoFlags, PandasSortCall(s, kwargs))

\* The caller has constructed one PandasSeries around a short series of a
\* nullable dtype, named x or unnamed.
InitPandasSort ==
    /\ pdVersion \in PandasVersions
    /\ \E vals \in SortSeries, name \in {StrName("x"), NoneName},
          impl \in {"pandas", "modin"} :
          LET ser == NativeSeries("pandas", vals, name, "Int64", RangeIndex(Len(vals)))
          IN /\ natives = <<ser>>
             /\ adapters = <<PandasInit(1, ser, impl)>>
    /\ latest = 0
    /\ pending = NoPending
    /\ last = NoCall

NextPandasSort == PandasSortCallOp

\* PandasSeries.sort with every choice of keyword arguments.
SpecPandasSort == InitPandasSort /\ [][NextPandasSort]_vars

\* The latest call gave sort the keyword kw with the value b.
SortGiven(kw, b) ==
    \E i \in DOMAIN last.args :
        last.args[i].kind = kw /\ last.args[i].text = (IF b THEN "True" ELSE "False")

\* C15: PandasSeries.sort(descending=False, nulls_last=True) is accepted and
\* returns a series with the non-null values rising, the nulls after them,
\* and the name of the receiver.
PandasSortAcceptsNullsLast ==
    (/\ last.op = "sort"
     /\ last.recv.cls = "PandasSeries"
     /\ SortGiven("descending", FALSE)
     /\ SortGiven("nulls_last", TRUE)) =>
        /\ last.err = ""
        /\ latest # 0
        /\ Returned = NativeSort(last.before, FALSE, TRUE)
        /\ adapters[latest].name = last.recv.name

(***************************************************************************)
(* PolarsSeries.to_dummies.                                                *)
(***************************************************************************)
\* A column of a native table with its dtype.
TypedColumn(name, vals, dtype) == [name |-> name, vals |-> vals, dtype |-> dtype]

\* A value as the name of its dummy column ends.
Label(e) == IF e.null THEN "null" ELSE <<"0", "1", "2", "3">>[e.v + 1]

\* The categories of a series in the order of their dummy columns: null
\* first when the series holds one, then the distinct values rising.
Categories(vals) ==
    (IF HasNulls(vals) THEN <<NullE>> ELSE <<>>)
        \o SortVals(Uniques(SelectIdx(vals, NotNull(vals))), FALSE)

\* A sequence without the element at the 1-based position i.
Without(seq, i) == SubSeq(seq, 1, i - 1) \o SubSeq(seq, i + 1, Len(seq))

\* pl.Series.to_dummies(separator=, drop_first=): for every category a
\* column of 0 and 1, named after the series and the category; drop_first
\* leaves out the first category that is no null.
NativeToDummies(n, separator, drop_first) ==
    LET all == Categories(n.vals)
        first == IF HasNulls(n.vals) THEN 2 ELSE 1
        cats == IF drop_first /\ first <= Len(all) THEN Without(all, first) ELSE all
    IN [i \in DOMAIN cats |->
           TypedColumn(n.name.text \o separator \o Label(cats[i]),
                       [j \in DOMAIN n.vals |-> Bool(n.vals[j] = cats[i])],
                       "UInt8")]

\* result.with_columns(pl.all().cast(pl.Int8))
CastAll(columns, dtype) ==
    [i \in DOMAIN columns |-> [columns[i] EXCEPT !.dtype = dtype]]

\* PolarsSeries.to_dummies(separator=, drop_first=)
PolarsToDummies(s, separator, drop_first) ==
    LET self == adapters[s]
        ser == natives[self.native]
        has_nulls == HasNulls(ser.vals)
        result == NativeToDummies(ser, separator, FALSE)
        \* list.pop(int(has_nulls)), 0-based
        at == (IF has_nulls THEN 1 ELSE 0) + 1
        output_columns == IF drop_first THEN Without(result, at) ELSE result
        new == NativeToDummies(ser, separator, drop_first)
        call == NativeCall("to_dummies", self.native, <<>>)
        frame == PolarsDataFrame(NewId, self.backend_version, self.version)
    IN IF TupleLess(self.backend_version, <<0, 20, 15>>)
       THEN IF drop_first /\ at > Len(result)
            THEN Raised("IndexError",
                        <<NativeCall("is_null", self.native, <<>>), call>>)
            ELSE ReturnedNew(<<NativeCall("is_null", self.native, <<>>), call,
                               NativeCall("select", 0, <<>>),
                               NativeCall("with_columns", 0, <<>>)>>,
                             NativeTable(CastAll(output_columns, "Int8")), frame)
       ELSE ReturnedNew(<<call, NativeCall("with_columns", 0, <<>>)>>,
                        NativeTable(CastAll(new, "Int8")), frame)

Separators == {"_", "-"}

PolarsToDummiesOp ==
    \E s \in SeriesIds("PolarsSeries"), separator \in Separators, drop_first \in BOOLEAN :
        Call("to_dummies", s, <<Named("separator", separator), Flag("drop_first", drop_first)>>,
             NoFlags, PolarsToDummies(s, separator, drop_first))

\* The backend versions about the threshold of to_dummies.
DummyVersions == {<<0, 20, 14>>, <<0, 20, 15>>}

\* The caller has constructed one PolarsSeries named x.
InitDummies ==
    /\ pdVersion \in PandasVersions
    /\ \E vals \in SortSeries, bv \in DummyVersions :
          /\ natives = <<NativeSeries("polars", vals, StrName("x"), "Int64", <<>>)>>
          /\ adapters = <<PolarsInit(1, bv, "MAIN")>>
    /\ latest = 0
    /\ pending = NoPending
    /\ last = NoCall

NextDummies == PolarsToDummiesOp

\* PolarsSeries.to_dummies on short series, on both sides of 0.20.15.
SpecDummies == InitDummies /\ [][NextDummies]_vars

\* C16: to_dummies returns, below backend version 0.20.15 as from it on and
\* for both values of drop_first, the columns the engine's own
\* to_dummies(separator, drop_first) gives, in that order and cast to 8-bit
\* integers, and does not raise; this for every series, an empty and an
\* all-null one included.
DummiesSameAcrossVersions ==
    last.op = "to_dummies" =>
        /\ last.err = ""
        /\ latest # 0
        /\ natives[adapters[latest].native].columns =
              CastAll(NativeToDummies([vals |-> last.before, name |-> StrName("x")],
                                      last.args[1].text, last.args[2].text = "True"),
                      "Int8")

====
